---- MODULE Spec2Model ----
(***************************************************************************)
(* A model of interp/interp.go (package interp of yaegi): the cancellable  *)
(* evaluator EvalWithContext with its helper stop, the evaluation          *)
(* goroutine running Eval/eval, and the REPL with its input-reader and     *)
(* signal-handler goroutines.                                              *)
(*                                                                         *)
(* An invocation of EvalWithContext is numbered i in Inv.  The caller of   *)
(* invocation i is at call[i].cpc, the goroutine it starts                 *)
(* (interp.go:522-525) is at call[i].gpc.  Channels made by                *)
(* make(chan struct{}) at interp.go:517 are named by the number of the     *)
(* invocation that made them (0 is nil).                                   *)
(*                                                                         *)
(* A step of the model is a stretch of code between two accesses to what   *)
(* another goroutine reads or writes: the run-ids (atomic), the channels,  *)
(* the contexts.  The sections run under interp.mutex (interp.go:516-519   *)
(* and 451-459) are steps of their own: nothing reads what they write      *)
(* while they run.                                                         *)
(***************************************************************************)
EXTENDS Integers, Sequences, FiniteSets, TLC

\* ------------------------------------------------------------------ bounds
\* Number of EvalWithContext calls the host makes directly (Spec).
MaxCalls == 2
\* Number of input lines the REPL's scanner reads (ReplSpec).
MaxLines == 2
\* Number of interrupt signals the operating system delivers (ReplSpec).
MaxSig == 1

\* Every REPL evaluation follows one received line: a line of input or the
\* empty line the signal handler sends, one per interrupt.
MaxInv == IF MaxCalls > MaxLines + MaxSig THEN MaxCalls ELSE MaxLines + MaxSig
Inv == 1..MaxInv
\* Contexts: one per direct call; in the REPL the first one plus one per
\* evaluation that returned context.Canceled.
Ctx == 1..(MaxInv + 1)

\* ------------------------------------------------------------------ values
NilChan == 0

\* A string is a sequence of tokens.
HasPrefix(s, p) == Len(s) >= Len(p) /\ SubSeq(s, 1, Len(p)) = p
HasSuffix(s, p) == Len(s) >= Len(p) /\ SubSeq(s, Len(s) - Len(p) + 1, Len(s)) = p

\* Messages of the first error of a scanner.ErrorList.
MsgFoundEOF == <<"expected", "';',", "found", "'EOF'">>
MsgRawString == <<"raw", "string", "literal", "not", "terminated">>
MsgOperandBrace == <<"expected", "operand,", "found", "'}'">>
MsgOther == <<"expected", "'IDENT',", "found", "1">>
Msgs == {MsgFoundEOF, MsgRawString, MsgOperandBrace, MsgOther}

\* reflect.Value{} and error values.  err is the kind of the error:
\* "nil", "ErrorList" (scanner.ErrorList, msg its first message), "cfgError"
\* (an error of the analysis or of closure generation), "Panic", and
\* "Canceled", the error of a cancelled context.
Value(valid, err, msg) == [valid |-> valid, err |-> err, msg |-> msg]
ZeroValue == Value(FALSE, "nil", <<>>)
CtxErrs == {"Canceled"}

\* What Eval does with a source text.  The parser, the analysis passes and
\* the executor are outside interp.go: a source is modelled by the path it
\* makes eval take.
\*   scanErr  interp.ast returns a scanner.ErrorList, its first message one of
\*            msgs                                            (interp.go:408-411)
\*   empty    interp.ast returns a nil root and no error     (interp.go:409)
\*   semErr   gtaRetry or cfg returns an error               (interp.go:425-440)
\*   genErr   genRun returns an error                        (interp.go:474-476)
\*   panic    the program panics while it runs               (interp.go:485-496)
\*   value    the program ends and leaves a valid value      (interp.go:497-507)
\*   silent   the program ends and leaves no value
\*   loop     the program never ends by itself (for {})
ProgsOf(kinds, msgs) == [k : kinds, msgs : {msgs}]
NoProg == [k |-> "none", msgs |-> {}]

VARIABLES
    \* the Interpreter (interp.go:126-151)
    id,          \* interp.id, the run-id
    frameId,     \* interp.frame.id
    done,        \* interp.done: the channel it holds
    closed,      \* the channels that are closed
    closedBy,    \* for a closed channel, the invocation whose stop() closed it
    cancelChan,  \* interp.cancelChan
    fastChan,    \* interp.opt.fastChan
    binPkg,      \* interp.binPkg
    crashed,     \* a panic nothing recovers has ended the process
    tick,        \* parity of the node transitions the executor has made
    \* contexts
    ctxErr,      \* ctxErr[c]: ctx.Err() of context c, "nil" while not done
    \* invocations of EvalWithContext
    ninv,        \* number of invocations begun
    call         \* call[i]: invocation i, a record:
                 \*   cpc     position of the caller
                 \*   gpc     position of the goroutine of interp.go:522
                 \*   ctx     the ctx argument
                 \*   prog    what the src argument makes eval do
                 \*   rid     the run-id loaded by interp.runid() at interp.go:479
                 \*   gres    v, err as assigned at interp.go:524
                 \*   ldone   the channel done of interp.go:521 is closed
                 \*   ret     what EvalWithContext returned
                 \*   branch  the case its select took
                 \*   stops   number of stop() calls it made
                 \*   pre     its ctx was done when it began
                 \*   binPkg  interp.binPkg when it began

VARIABLES
    \* REPL (interp.go:655-738)
    rpc,         \* position of the REPL's loop
    stdin,       \* interp.stdin: what Stat() of the input gives
    rctx,        \* ctx and cancel, the current context and its cancel function
    src,         \* src, the source buffer
    line,        \* line, the last line received
    rv,          \* v, err
    rret,        \* what REPL returned
    out,         \* what has been written to interp.stdout
    endClosed,   \* the channel end is closed
    rdpc,        \* position of the input-reader goroutine (interp.go:684-692)
    rdline,      \* s.Text()
    hpc,         \* position of the signal-handler goroutine (interp.go:694-704)
    seen,        \* the value of cancel the handler is sure to see: the one at
                 \* its last synchronisation with the loop
    sigBuf,      \* number of signals in the channel sig, of capacity 1
    nsig,        \* number of interrupts delivered
    scanned,     \* the lines the scanner has read
    fed,         \* the lines of input that reached an evaluation
    hit          \* the handler called cancel while the evaluation was in progress:
                 \* EvalWithContext had not returned, its goroutine had not finished

VARIABLES
    \* Use (interp.go:556-577)
    nuse,        \* number of Use calls made
    useArg,      \* values, the argument of the last Use call
    registered,  \* the package paths Use calls have registered in binPkg
    hooked       \* what interp.hooks.Parse has been given

VARIABLES
    \* Eval, EvalPath and eval (interp.go:375-508), called by the host itself
    opt,         \* interp.opt: the options noRun, astDot, cfgDot
    name,        \* interp.name, the source name
    universe,    \* interp.universe.sym: the package names visible in it
    types,       \* interp.universe.types, the types of the global frame's slots
    frameData,   \* interp.frame.data
    frameMutex,  \* holder of interp.frame.mutex in write mode
    neval,       \* number of evaluations the host has begun
    ecall,       \* the evaluation in progress: entry point, arguments of eval,
                 \* and what the source makes the stages of eval do
    epc,         \* position in eval: the stage to perform next
    stages,      \* the stages of eval performed by the evaluation in progress
    panicked,    \* the value the evaluation in progress panicked with
    eres,        \* res, err as the entry point returned them
    mainSym,     \* interp.scopes["main"].sym["main"] is not nil
    initNodes    \* initNodes of the evaluation in progress (interp.go:430-445)

VARIABLES
    \* the mutex of the Interpreter (interp.go:142) and the tasks that use it
    mutex,        \* the task that holds it for writing, and those that hold it for reading
    lpc           \* for each task, the statement it is at

useVars == <<nuse, useArg, registered, hooked>>
evalVars == <<opt, name, universe, types, frameData, frameMutex, neval, ecall, epc, stages,
              panicked, eres, mainSym, initNodes>>
lockVars == <<mutex, lpc>>
hostVars == <<useVars, evalVars, lockVars>>

replVars == <<rpc, stdin, rctx, src, line, rv, rret, out, endClosed, rdpc, rdline, hpc, seen,
              sigBuf, nsig, scanned, fed, hit>>
interpVars == <<id, frameId, done, closed, closedBy, cancelChan, fastChan, binPkg,
                crashed, tick>>
vars == <<interpVars, ctxErr, ninv, call, replVars, hostVars>>

\* ------------------------------------------------------------- New
\* New, interp.go:235: the registry holds the wrapper of the error interface only.
NewBinPkg == [p \in {""} |-> [s \in {"_error"} |-> "(*_error)(nil)"]]

NewInterp ==
    /\ id = 0
    /\ frameId = 0
    /\ done = NilChan
    /\ closed = {}
    /\ closedBy = [c \in Inv |-> 0]
    /\ cancelChan = FALSE
    /\ fastChan \in BOOLEAN
    /\ binPkg = NewBinPkg
    /\ crashed = FALSE
    /\ tick = 0

\* A Go map with no key.
EmptyMap == [k \in {} |-> {}]

\* reflect.Value and error as Eval and EvalPath return them; value is the
\* Value of a Panic error.
Result(valid, err, value) == [valid |-> valid, err |-> err, value |-> value]
ZeroResult == Result(FALSE, "nil", "none")

\* No evaluation is in progress.
NoEval == [entry |-> "none", name |-> "", inc |-> FALSE, fail |-> "none", how |-> "none"]

\* New, interp.go:229-240 and 259-271: the options read from the environment
\* are left at FALSE.
DefaultOpt == [noRun |-> FALSE, astDot |-> FALSE, cfgDot |-> FALSE]

\* Use has not been called.
NoUse ==
    /\ nuse = 0
    /\ useArg = EmptyMap
    /\ registered = {}
    /\ hooked = <<>>

\* New, interp.go:229-240: no source name, no package in the universe, an
\* empty global frame; the host has not called Eval or EvalPath.
NoEvalCall ==
    /\ name = ""
    /\ universe = {}
    /\ types = <<>>
    /\ frameData = <<>>
    /\ frameMutex = "free"
    /\ neval = 0
    /\ ecall = NoEval
    /\ epc = "idle"
    /\ stages = <<>>
    /\ panicked = "none"
    /\ eres = ZeroResult
    /\ mainSym = FALSE
    /\ initNodes = <<>>

\* The tasks that share the interpreter: the host, and the goroutine in which
\* EvalWithContext evaluates.
Tasks == {"host", "eval"}

\* The mutex is free; the host is between calls and no goroutine evaluates.
FreeMutex == [w |-> "none", r |-> {}]
NoLock ==
    /\ mutex = FreeMutex
    /\ lpc = [t \in Tasks |-> IF t = "host" THEN "idle" ELSE "none"]

\* No call of the host other than New has been made.
NoHost == NoUse /\ opt = DefaultOpt /\ NoEvalCall /\ NoLock

NoCall ==
    [cpc |-> "idle", gpc |-> "none", ctx |-> 0, prog |-> NoProg, rid |-> 0,
     gres |-> ZeroValue, ldone |-> FALSE, ret |-> ZeroValue, branch |-> "none",
     stops |-> 0, pre |-> FALSE, binPkg |-> NewBinPkg]

NoInvocations ==
    /\ ninv = 0
    /\ call = [i \in Inv |-> NoCall]

\* ------------------------------------------------------------- EvalWithContext
Active(i) == call[i].cpc \notin {"idle", "returned"}

\* What is left of an invocation that has returned once its caller goes on:
\* the locals of EvalWithContext are gone, the goroutine it started remains.
Retire(r) ==
    IF r.cpc # "returned" THEN r
    ELSE [NoCall EXCEPT !.cpc = "returned", !.gpc = r.gpc, !.rid = r.rid,
                        !.prog = IF r.gpc = "finished" THEN NoProg ELSE r.prog]

\* interp.go:516-525: under the lock, make a fresh done channel and set
\* cancelChan; start the goroutine that evaluates src.
EvalWithContextEnter(i, c, p) ==
    /\ UNCHANGED hostVars
    /\ ~crashed
    /\ i = ninv + 1
    /\ done' = i
    /\ cancelChan' = ~fastChan
    /\ ninv' = i
    /\ call' = [j \in Inv |->
                  IF j = i
                  THEN [NoCall EXCEPT !.cpc = "select", !.gpc = "start", !.ctx = c,
                                      !.prog = p, !.pre = (ctxErr[c] # "nil"),
                                      !.binPkg = binPkg]
                  ELSE Retire(call[j])]
    /\ UNCHANGED <<id, frameId, closed, closedBy, fastChan, binPkg, crashed, tick>>

\* A stop that would add two to the run-id.
stopAddTwo(n) == n + 2

\* stop, interp.go:540: atomic.AddUint64(&interp.id, 1).
stopAdd(n) == n + 1

\* stop, interp.go:541: the channel close(interp.done) closes.
stopChan(i) == done

\* A ctx.Done() branch that would return v, err as they are at that time.
CancelReturnResult(i) == call[i].gres

\* interp.go:530: return reflect.Value{}, ctx.Err().
CancelReturn(i) == Value(FALSE, ctxErr[call[i].ctx], <<>>)

\* interp.go:528-530 and 539-542: the select takes the case <-ctx.Done();
\* stop() adds to the run-id and closes interp.done, which panics on a nil or
\* closed channel; then the return.
EvalWithContextCtxDone(i) ==
    /\ UNCHANGED hostVars
    /\ ~crashed
    /\ UNCHANGED replVars
    /\ call[i].cpc = "select"
    /\ ctxErr[call[i].ctx] # "nil"
    /\ id' = stopAdd(id)
    /\ IF stopChan(i) = NilChan \/ stopChan(i) \in closed
       THEN /\ crashed' = TRUE
            /\ call' = [call EXCEPT ![i].cpc = "stop", ![i].branch = "ctx",
                                    ![i].stops = @ + 1]
            /\ UNCHANGED <<closed, closedBy>>
       ELSE /\ closed' = closed \cup {stopChan(i)}
            /\ closedBy' = [closedBy EXCEPT ![stopChan(i)] = i]
            /\ call' = [call EXCEPT ![i].cpc = "returned", ![i].branch = "ctx",
                                    ![i].stops = @ + 1, ![i].ret = CancelReturn(i)]
            /\ UNCHANGED crashed
    /\ UNCHANGED <<frameId, done, cancelChan, fastChan, binPkg, tick, ctxErr, ninv>>

\* interp.go:533: return v, err.
DoneReturn(i) == call[i].gres

\* interp.go:531-533: the select takes the case <-done.
EvalWithContextDone(i) ==
    /\ UNCHANGED hostVars
    /\ ~crashed
    /\ UNCHANGED replVars
    /\ call[i].cpc = "select"
    /\ call[i].ldone
    /\ call' = [call EXCEPT ![i].cpc = "returned", ![i].branch = "done",
                            ![i].ret = DoneReturn(i)]
    /\ UNCHANGED <<interpVars, ctxErr, ninv>>

\* ------------------------------------------------------------- Eval
\* interp.go:523-524: v, err = interp.Eval(src) has returned r, and the deferred
\* close(done) runs.
EvalReturn(i, r) ==
    call' = [call EXCEPT ![i].gpc = "finished", ![i].gres = r, ![i].ldone = TRUE,
                         ![i].rid = 0]

\* The value and error of an eval that returns before interp.go:478.
CompileErrors(p) ==
    CASE p.k = "scanErr" -> {Value(FALSE, "ErrorList", m) : m \in p.msgs}
      [] p.k = "empty" -> {ZeroValue}
      [] p.k \in {"semErr", "genErr"} -> {Value(FALSE, "cfgError", <<>>)}

\* runid, interp.go:544: atomic.LoadUint64(&interp.id).
runid == id

\* interp.go:390-479: parse, analyse, build the CFG, register the package under
\* the lock, generate the closures; an error returns, otherwise interp.runid()
\* is loaded, the argument of setrunid.
EvalCompile(i) ==
    /\ UNCHANGED hostVars
    /\ ~crashed
    /\ UNCHANGED replVars
    /\ call[i].gpc = "start"
    /\ IF call[i].prog.k \in {"scanErr", "empty", "semErr", "genErr"}
       THEN \E r \in CompileErrors(call[i].prog) : EvalReturn(i, r)
       ELSE call' = [call EXCEPT ![i].gpc = "setrunid", ![i].rid = runid]
    /\ UNCHANGED <<interpVars, ctxErr, ninv>>

\* interp.go:479-482 and 90: interp.frame.setrunid stores the loaded run-id in
\* the global frame; the frame is resized under its lock.
EvalSetRunid(i) ==
    /\ UNCHANGED hostVars
    /\ ~crashed
    /\ UNCHANGED replVars
    /\ call[i].gpc = "setrunid"
    /\ frameId' = call[i].rid
    /\ call' = [call EXCEPT ![i].gpc = "run", ![i].rid = 0]
    /\ UNCHANGED <<id, done, closed, closedBy, cancelChan, fastChan, binPkg, crashed, tick,
                   ctxErr, ninv>>

\* The executor's dispatch goes on while the frame's run-id is the interpreter's.
Diverged == frameId # runid

\* What eval returns when the executor left its loop on a diverged run-id: the
\* loops of interp.go:485-496 fall through and interp.go:497-507 reads the
\* result slot of the root node, with no error.
ExitResults(p) ==
    IF p.k = "value" THEN {Value(TRUE, "nil", <<>>), ZeroValue} ELSE {ZeroValue}

\* What eval returns when the program ran to its end: a panic is recovered
\* into a Panic error by the handler of interp.go:398-405.
EndResult(p) ==
    CASE p.k = "panic" -> Value(FALSE, "Panic", <<>>)
      [] p.k = "value" -> Value(TRUE, "nil", <<>>)
      [] p.k = "silent" -> ZeroValue

\* interp.go:485-507: one dispatch of the executor.
EvalRun(i) ==
    /\ UNCHANGED hostVars
    /\ ~crashed
    /\ UNCHANGED replVars
    /\ call[i].gpc = "run"
    /\ IF Diverged
       THEN /\ \E r \in ExitResults(call[i].prog) : EvalReturn(i, r)
            /\ UNCHANGED tick
       ELSE IF call[i].prog.k = "loop"
       THEN /\ tick' = 1 - tick
            /\ UNCHANGED call
       ELSE /\ EvalReturn(i, EndResult(call[i].prog))
            /\ UNCHANGED tick
    /\ UNCHANGED <<id, frameId, done, closed, closedBy, cancelChan, fastChan, binPkg,
                   crashed, ctxErr, ninv>>

\* ------------------------------------------------------------- the host
ApiProgs == ProgsOf({"semErr", "panic", "value", "silent", "loop"}, {})

\* The host calls EvalWithContext, one call after the other has returned, with a
\* context of its own for each call; the contexts of earlier calls are dropped.
Call ==
    /\ ninv < MaxCalls
    /\ \A j \in Inv : ~Active(j)
    /\ \E p \in ApiProgs : EvalWithContextEnter(ninv + 1, ninv + 1, p)
    /\ ctxErr' = [c \in Ctx |-> IF c = ninv + 1 THEN ctxErr[c] ELSE "nil"]
    /\ UNCHANGED replVars

\* The context of the call in progress, or of the next call, is cancelled, or
\* its deadline passes.
CancelCtx ==
    /\ UNCHANGED hostVars
    /\ ~crashed
    /\ \E c \in 1..MaxCalls, e \in CtxErrs :
          /\ c \in {ninv, ninv + 1}
          /\ call[c].cpc # "returned"
          /\ ctxErr[c] = "nil"
          /\ ctxErr' = [ctxErr EXCEPT ![c] = e]
    /\ UNCHANGED <<interpVars, ninv, call, replVars>>

SelectCtx == \E i \in Inv : EvalWithContextCtxDone(i)
SelectDone == \E i \in Inv : EvalWithContextDone(i)
Compile == \E i \in Inv : EvalCompile(i)
SetRunid == \E i \in Inv : EvalSetRunid(i)
Run == \E i \in Inv : EvalRun(i)

\* REPL has not been called.
NoRepl ==
    /\ rpc = "off"
    /\ stdin = [stat |-> "none", charDevice |-> FALSE]
    /\ rctx = 0
    /\ src = <<>>
    /\ line = <<>>
    /\ rv = ZeroValue
    /\ rret = ZeroValue
    /\ out = <<>>
    /\ endClosed = FALSE
    /\ rdpc = "none"
    /\ rdline = <<>>
    /\ hpc = "none"
    /\ seen = 0
    /\ sigBuf = 0
    /\ nsig = 0
    /\ scanned = <<>>
    /\ fed = <<>>
    /\ hit = FALSE

Init ==
    /\ NewInterp
    /\ NoInvocations
    /\ ctxErr = [c \in Ctx |-> "nil"]
    /\ NoRepl
    /\ NoHost

Next ==
    \/ Call
    \/ CancelCtx
    \/ SelectCtx
    \/ SelectDone
    \/ Compile
    \/ SetRunid
    \/ Run

Spec == Init /\ [][Next]_vars

\* The scheduler lets every goroutine that can take a step take one: the
\* caller of each invocation in its select, and each evaluation goroutine.
\* The host is not bound to call or to cancel.
Fairness ==
    \A i \in Inv :
        /\ WF_vars(EvalWithContextCtxDone(i) \/ EvalWithContextDone(i))
        /\ WF_vars(EvalCompile(i))
        /\ WF_vars(EvalSetRunid(i))
        /\ WF_vars(EvalRun(i))

FairSpec == Spec /\ Fairness

\* ------------------------------------------------------------- properties
\* An invocation that has returned and whose locals are still there.
Returned(i) == call[i].cpc = "returned" /\ call[i].branch # "none"

C2_RunidDiffersAfterStop ==
    \A i \in Inv :
        (Returned(i) /\ call[i].branch = "ctx" /\ i = ninv) => frameId # runid

\* C3: when the context is done while EvalWithContext evaluates a program that
\* never ends by itself, EvalWithContext eventually returns the cancellation
\* error and the goroutine it started eventually leaves the executor.
C3_CancelEndsLoop ==
    \A i \in 1..MaxCalls :
        LET Fired == Active(i) /\ call[i].prog.k = "loop" /\ ctxErr[call[i].ctx] # "nil"
        IN  /\ Fired ~> (Returned(i) /\ call[i].ret.err \in CtxErrs)
            /\ Fired ~> (call[i].gpc = "finished")

\* C4: an invocation whose context was done when it began returns a
\* cancellation error, and interp.binPkg is what it was when it began.
C4_PreCancelled ==
    \A i \in Inv :
        (Returned(i) /\ call[i].pre) =>
            /\ call[i].ret.err \in CtxErrs
            /\ binPkg = call[i].binPkg

\* C5: with calls made one after the other, an invocation calls stop() at most
\* once, and only when it took the ctx.Done() case; every stop() added one to
\* the run-id and closed one more channel, so the run-id is the number of
\* closed channels; the channel a stop() closed is the one its own invocation
\* made, and no close found its channel nil or closed.
C5_StopOncePerInvocation ==
    /\ ~crashed
    /\ id = Cardinality(closed)
    /\ \A ch \in closed : closedBy[ch] = ch
    /\ \A i \in Inv :
          /\ call[i].stops <= 1
          /\ call[i].stops = 1 <=> call[i].branch = "ctx"
          /\ call[i].branch = "ctx" => i \in closed
          /\ call[i].branch = "done" => i \notin closed

\* Two invocations in a row have been cancelled.
C5_Witness == id = 2 /\ closed = {1, 2} /\ Returned(2) /\ call[2].branch = "ctx"

\* ------------------------------------------------------------- REPL
\* A line of input is a sequence of characters; the handler sends the empty line.
Lines == {<<"x">>, <<"x", "}">>}
Newline == <<"\n">>

\* What the Stat method of the input gives: no such method, an error, or the
\* file mode with or without os.ModeCharDevice.
Stdins ==
    {[stat |-> "none", charDevice |-> FALSE], [stat |-> "err", charDevice |-> FALSE],
     [stat |-> "ok", charDevice |-> FALSE], [stat |-> "ok", charDevice |-> TRUE]}

\* An ignoreScannerError that would not look at the line.
ignoreScannerErrorAnyLine(msg, s) ==
    \/ HasSuffix(msg, <<"found", "'EOF'">>)
    \/ msg = <<"raw", "string", "literal", "not", "terminated">>
    \/ HasPrefix(msg, <<"expected", "operand,", "found", "'}'">>)

\* ignoreScannerError, interp.go:637-649.
ignoreScannerError(msg, s) ==
    IF HasSuffix(msg, <<"found", "'EOF'">>) THEN TRUE
    ELSE IF msg = <<"raw", "string", "literal", "not", "terminated">> THEN TRUE
    ELSE IF HasPrefix(msg, <<"expected", "operand,", "found", "'}'">>) /\ ~HasSuffix(s, <<"}">>)
    THEN TRUE
    ELSE FALSE

\* getPrompt, interp.go:741-756: the function it returns prints, or is silent.
getPrompt(in) ==
    IF in.stat = "none" THEN "silent"
    ELSE IF in.stat = "ok" /\ in.charDevice THEN "print"
    ELSE "silent"

\* A prompt function that would print the value whether it is valid or not.
promptAnyValue(f, v) ==
    IF f = "print" THEN <<": ", "<value>", "\n", "> ">> ELSE <<>>

\* The function getPrompt returned, applied to v: what it writes (interp.go:748-753).
prompt(f, v) ==
    IF f = "print"
    THEN (IF v.valid THEN <<": ", "<value>", "\n">> ELSE <<>>) \o <<"> ">>
    ELSE <<>>

\* context.CancelFunc: cancelling a cancelled context changes nothing.
cancel(c) == [ctxErr EXCEPT ![c] = "Canceled"]

\* What a source text makes eval do: a text of empty lines has no root node
\* (interp.go:408-411).
Blank(text) == \A k \in 1..Len(text) : text[k] = "\n"
ReplProgs(text) ==
    IF Blank(text) THEN ProgsOf({"empty"}, {})
    ELSE ProgsOf({"scanErr", "semErr", "panic", "value", "loop"}, Msgs)

\* interp.go:685-691, the input-reader goroutine up to its next send or to its
\* end: s.Scan() reads a line, or is false at the end of the input or on a read
\* error, and the deferred close(end) runs.  The reader touches nothing the
\* other goroutines read before that send or close, so it is taken to reach
\* it in the step that lets it go on.
Scan ==
    \/ /\ Len(scanned) < MaxLines
       /\ \E l \in Lines :
             /\ rdline' = l
             /\ scanned' = Append(scanned, l)
       /\ rdpc' = "send"
       /\ UNCHANGED endClosed
    \/ /\ endClosed' = TRUE
       /\ rdline' = <<>>
       /\ rdpc' = "done"
       /\ UNCHANGED scanned

\* interp.go:656-692 and 694: pre-import, the first context, the channels, the
\* first prompt, and the two goroutines are started.
REPLStart ==
    /\ UNCHANGED hostVars
    /\ ~crashed
    /\ rpc = "init"
    /\ rctx' = 1
    /\ seen' = 1
    /\ out' = out \o prompt(getPrompt(stdin), rv)
    /\ Scan
    /\ hpc' = "select"
    /\ rpc' = "select"
    /\ UNCHANGED <<interpVars, ctxErr, ninv, call>>
    /\ UNCHANGED <<stdin, src, line, rv, rret, sigBuf, nsig, fed, hit>>

\* interp.go:715-717: src += line + "\n", and EvalWithContext(ctx, src) is
\* called.
REPLCall(l) ==
    /\ line' = l
    /\ src' = src \o l \o Newline
    /\ \E p \in ReplProgs(src \o l \o Newline) : EvalWithContextEnter(ninv + 1, rctx, p)
    /\ hit' = FALSE
    /\ rpc' = "wait"
    /\ UNCHANGED <<ctxErr, stdin, rctx, rv, rret, out, sigBuf, nsig>>

\* interp.go:687 and 713-717: the reader's send on lines meets the loop's
\* receive, and the loop evaluates.
REPLRecvLine ==
    /\ rpc = "select"
    /\ rdpc = "send"
    /\ fed' = Append(fed, rdline)
    /\ Scan
    /\ REPLCall(rdline)
    /\ UNCHANGED <<hpc, seen>>

\* interp.go:699 and 713-717: the handler's send of the empty line meets the
\* loop's receive, and the loop evaluates; from here on the handler sees what
\* the loop had written.
REPLRecvEmpty ==
    /\ rpc = "select"
    /\ hpc = "send"
    /\ seen' = rctx
    /\ hpc' = "select"
    /\ REPLCall(<<>>)
    /\ UNCHANGED <<endClosed, rdpc, rdline, scanned, fed>>

\* A REPL that would return the zero value and no error.
REPLReturnZero == ZeroValue

\* interp.go:712: return v, err.
REPLReturn == rv

\* interp.go:710-712: end is closed; cancel(), return v, err.
REPLEnd ==
    /\ UNCHANGED hostVars
    /\ ~crashed
    /\ rpc = "select"
    /\ endClosed
    /\ ctxErr' = cancel(rctx)
    /\ rret' = REPLReturn
    /\ rpc' = "returned"
    /\ UNCHANGED <<interpVars, ninv, call>>
    /\ UNCHANGED <<stdin, rctx, src, line, rv, out, endClosed, rdpc, rdline, hpc, seen, sigBuf,
                   nsig, scanned, fed, hit>>

\* interp.go:718-723: the error is a scanner.ErrorList whose first error says
\* the input is incomplete.
Incomplete(r, s) == r.err = "ErrorList" /\ ignoreScannerError(r.msg, s)

\* interp.go:717-736: EvalWithContext has returned; the rest of the loop's body.
\* What is written to interp.stderr is not kept.
REPLAfterEval ==
    /\ UNCHANGED hostVars
    /\ ~crashed
    /\ rpc = "wait"
    /\ call[ninv].cpc = "returned"
    /\ rv' = call[ninv].ret
    /\ IF Incomplete(call[ninv].ret, line)
       THEN UNCHANGED <<rctx, src, out>>
       ELSE /\ rctx' = IF call[ninv].ret.err = "Canceled" THEN rctx + 1 ELSE rctx
            /\ src' = <<>>
            /\ out' = out \o prompt(getPrompt(stdin), call[ninv].ret)
    /\ rpc' = "select"
    /\ UNCHANGED <<interpVars, ctxErr, ninv, call>>
    /\ UNCHANGED <<stdin, line, rret, endClosed, rdpc, rdline, hpc, seen, sigBuf, nsig, scanned,
                   fed, hit>>

\* os/signal delivers an interrupt to sig, a channel with a buffer of one
\* (interp.go:672, 680); the send does not block, and a signal that finds the
\* buffer full is dropped.
Interrupt ==
    /\ UNCHANGED hostVars
    /\ ~crashed
    /\ rpc \in {"select", "wait"}
    /\ nsig < MaxSig
    /\ nsig' = nsig + 1
    /\ sigBuf' = 1
    /\ UNCHANGED <<interpVars, ctxErr, ninv, call>>
    /\ UNCHANGED <<rpc, stdin, rctx, src, line, rv, rret, out, endClosed, rdpc, rdline, hpc,
                   seen, scanned, fed, hit>>

\* interp.go:697-698: the handler receives the signal and calls cancel.  It
\* reads the variable cancel with no synchronisation with the loop's assignment
\* at interp.go:733: it gets the value it saw last or the current one.
HandlerSignal ==
    /\ UNCHANGED hostVars
    /\ ~crashed
    /\ hpc = "select"
    /\ sigBuf = 1
    /\ sigBuf' = 0
    /\ \E c \in {seen, rctx} : ctxErr' = cancel(c)
    /\ hit' = (hit \/ (rpc = "wait" /\ call[ninv].cpc = "select" /\ call[ninv].gpc # "finished"))
    /\ hpc' = "send"
    /\ UNCHANGED <<interpVars, ninv, call>>
    /\ UNCHANGED <<rpc, stdin, rctx, src, line, rv, rret, out, endClosed, rdpc, rdline, seen,
                   nsig, scanned, fed>>

\* interp.go:700-701: the handler sees end closed and returns.
HandlerEnd ==
    /\ UNCHANGED hostVars
    /\ ~crashed
    /\ hpc = "select"
    /\ endClosed
    /\ hpc' = "done"
    /\ UNCHANGED <<interpVars, ctxErr, ninv, call>>
    /\ UNCHANGED <<rpc, stdin, rctx, src, line, rv, rret, out, endClosed, rdpc, rdline, seen,
                   sigBuf, nsig, scanned, fed, hit>>

\* REPL is called on a new interpreter.
ReplInit ==
    /\ NewInterp
    /\ NoInvocations
    /\ ctxErr = [c \in Ctx |-> "nil"]
    /\ NoHost
    /\ rpc = "init"
    /\ stdin \in Stdins
    /\ rctx = 0
    /\ src = <<>>
    /\ line = <<>>
    /\ rv = ZeroValue
    /\ rret = ZeroValue
    /\ out = <<>>
    /\ endClosed = FALSE
    /\ rdpc = "none"
    /\ rdline = <<>>
    /\ hpc = "none"
    /\ seen = 0
    /\ sigBuf = 0
    /\ nsig = 0
    /\ scanned = <<>>
    /\ fed = <<>>
    /\ hit = FALSE

ReplNext ==
    \/ REPLStart
    \/ REPLRecvLine
    \/ REPLRecvEmpty
    \/ REPLEnd
    \/ REPLAfterEval
    \/ Interrupt
    \/ HandlerSignal
    \/ HandlerEnd
    \/ SelectCtx
    \/ SelectDone
    \/ Compile
    \/ SetRunid
    \/ Run

ReplSpec == ReplInit /\ [][ReplNext]_vars

\* The scheduler lets the loop, the handler and the goroutines of the
\* evaluations take the steps they can take.  Nothing binds the operating
\* system to deliver an interrupt.
ReplFairness ==
    /\ WF_vars(REPLStart)
    /\ WF_vars(REPLRecvLine \/ REPLRecvEmpty \/ REPLEnd)
    /\ WF_vars(REPLAfterEval)
    /\ WF_vars(HandlerSignal)
    /\ WF_vars(HandlerEnd)
    /\ Fairness

\* REPL on a terminal, the interpreter made with the default options.
TerminalReplInit ==
    /\ ReplInit
    /\ ~fastChan
    /\ stdin = [stat |-> "ok", charDevice |-> TRUE]

FairReplSpec == TerminalReplInit /\ [][ReplNext]_vars /\ ReplFairness

\* ------------------------------------------------------------- properties of REPL
\* The step of the loop that follows the return of EvalWithContext.
AfterEvalStep == rpc = "wait" /\ rpc' = "select"
\* The step of the loop that receives a line and calls EvalWithContext.
RecvStep == rpc = "select" /\ rpc' = "wait"
\* The input is a terminal.
Terminal == stdin.stat = "ok" /\ stdin.charDevice

\* C6: REPL returns only once the input is exhausted; an interrupt that comes
\* while an evaluation is in progress makes its EvalWithContext return
\* context.Canceled, and once the loop waits for a line again its context is a
\* new one, not cancelled.
C6_InterruptCancelsEvaluation ==
    /\ rpc = "returned" => endClosed
    /\ (rpc = "wait" /\ hit /\ Returned(ninv)) => call[ninv].ret.err = "Canceled"
    /\ (rpc = "select" /\ hit) => (rv.err = "Canceled" /\ ctxErr[rctx] = "nil")

\* C7: an evaluation the REPL starts for a line of input starts under a
\* context that is not cancelled.
C7_LineStartsUncancelled ==
    (rpc = "wait" /\ line # <<>>) => ~call[ninv].pre

\* The incomplete-input signatures: a parser error list whose first message
\* ends with found 'EOF', or is raw string literal not terminated, or starts
\* with expected operand, found '}' while the last line does not end in '}'.
IncompleteInput(r, l) ==
    /\ r.err = "ErrorList"
    /\ \/ r.msg \in {MsgFoundEOF, MsgRawString}
       \/ r.msg = MsgOperandBrace /\ (l = <<>> \/ l[Len(l)] # "}")

\* Number of prompts "> " in what was written.
Prompts(o) == Cardinality({k \in 1..Len(o) : o[k] = "> "})

\* C8: a line received is appended to the buffer.  After an evaluation whose
\* error is an incomplete-input signature the buffer is kept and nothing is
\* written; after any other outcome the buffer is emptied and, on a terminal,
\* one prompt is written.
C8_BufferAndPrompt ==
    [][/\ RecvStep => src' = src \o line' \o Newline
       /\ AfterEvalStep =>
             IF IncompleteInput(rv', line)
             THEN src' = src /\ out' = out
             ELSE /\ src' = <<>>
                  /\ Prompts(out') = Prompts(out) + (IF Terminal THEN 1 ELSE 0)]_vars

\* A second line has been appended to a buffer kept after an incomplete input.
C8_Witness ==
    /\ rpc = "wait"
    /\ Len(fed) = 2
    /\ src = fed[1] \o Newline \o fed[2] \o Newline

\* C9, as the claim has it: once the input has ended REPL eventually returns.
C9_EndReturns == endClosed ~> (rpc = "returned")

\* C9: when REPL has returned the input had ended, it returns v, err of the
\* last evaluation (the zero value and no error if there was none), and the
\* lines that reached an evaluation are the lines the scanner read, in their
\* order.  Once the input has ended REPL eventually returns, unless it stays
\* for ever in an evaluation that does not return.
C9_EndReturnsUnlessStuck ==
    /\ [](rpc = "returned" =>
            /\ endClosed
            /\ rret = rv
            /\ rv = (IF ninv = 0 THEN ZeroValue ELSE call[ninv].ret)
            /\ fed = scanned)
    /\ \/ <>[](rpc = "wait" /\ call[ninv].cpc = "select")
       \/ endClosed ~> (rpc = "returned")

\* REPL has returned after two lines of input, the second evaluated last.
C9_Witness == rpc = "returned" /\ Len(scanned) = 2 /\ fed = scanned /\ rret.err = "Panic"

\* C10: on a terminal a prompt "> " is written when REPL starts and after
\* every evaluation that is not an incomplete input, preceded by the value and
\* a newline if and only if the evaluation gave a valid value and no error;
\* nothing else is written, and nothing at all when the input is not a
\* terminal or has no Stat.
C10_PromptOutput ==
    /\ [](~Terminal => out = <<>>)
    /\ [][IF rpc = "init" /\ rpc' = "select"
          THEN out' = (IF Terminal THEN <<"> ">> ELSE <<>>)
          ELSE IF AfterEvalStep /\ ~IncompleteInput(rv', line)
          THEN out' = out \o (IF ~Terminal THEN <<>>
                              ELSE IF rv'.valid /\ rv'.err = "nil"
                              THEN <<": ", "<value>", "\n", "> ">>
                              ELSE <<"> ">>)
          ELSE out' = out]_vars

\* The first line gave a value: the prompt, then the value, a newline and the prompt.
C10_Witness == out = <<"> ", ": ", "<value>", "\n", "> ">>

\* ------------------------------------------------------------- Use
\* Number of Use calls the host makes (UseSpec).
MaxUses == 2

\* hooksPath, the path Use hands to the hooks parser (interp.go:558).
HooksPath == "hooks"

\* The packages a host registers and the names it gives them.  fmt.Sprint and
\* hooks.Getenv stand for the symbols fixStdio does not write.
ExportNames ==
    [fmt |-> {"Print", "Sprint"}, os |-> {"Stdout"}, log |-> {"Fatal"},
     flag |-> {"CommandLine"}, hooks |-> {"Getenv"}]

\* The host value registered for path k and name s by the n-th Use call.
HostValue(k, s, n) == [host |-> <<k, s>>, use |-> n]

\* The Exports values a host may give to its n-th Use call: any set of the
\* packages, each with any set of its names.
ExportPairs == {<<k, s>> : k \in DOMAIN ExportNames, s \in UNION {ExportNames[k] : k \in DOMAIN ExportNames}}
ExportsOf(n) ==
    UNION {{[k \in ks |-> [s \in {x \in ExportNames[k] : <<k, x>> \in pick} |->
                              HostValue(k, s, n)]] :
               pick \in SUBSET {pr \in ExportPairs : pr[1] \in ks /\ pr[2] \in ExportNames[pr[1]]}} :
           ks \in SUBSET DOMAIN ExportNames}

\* m[s] = w[s] for every s in w, in a Go map m.
Put(m, w) == [s \in DOMAIN m \cup DOMAIN w |-> IF s \in DOMAIN w THEN w[s] ELSE m[s]]

\* A registration that would keep the symbol registered first.
useMergeKeepFirst(old, new) == Put(new, old)

\* interp.go:567-569: interp.binPkg[k][s] = sym for every s, sym of v.
useMerge(old, new) == Put(old, new)

\* interp.go:557-570: the loop of Use over values; a package binPkg does not
\* have is made first, the hooks path is skipped.
useRegister(b, values) ==
    [k \in DOMAIN b \cup (DOMAIN values \ {HooksPath}) |->
        IF k \in DOMAIN values
        THEN useMerge(IF k \in DOMAIN b THEN b[k] ELSE EmptyMap, values[k])
        ELSE b[k]]

\* A function or variable of the host library bound to a stream of the
\* interpreter (interp.stdin, interp.stdout, interp.stderr).
Redirect(fn, stream) == [fn |-> fn, stream |-> stream]

\* The map that binds each name of a set of <<name, function, stream>> to its
\* redirection.
Redirects(triples) ==
    [s \in {t[1] : t \in triples} |->
        LET t == CHOOSE x \in triples : x[1] = s IN Redirect(t[2], t[3])]

\* interp.go:592-598.
FmtStdio ==
    Redirects({<<"Print", "fmt.Fprint", "stdout">>, <<"Printf", "fmt.Fprintf", "stdout">>,
               <<"Println", "fmt.Fprintln", "stdout">>, <<"Scan", "fmt.Fscan", "stdin">>,
               <<"Scanf", "fmt.Fscanf", "stdin">>, <<"Scanln", "fmt.Fscanln", "stdin">>})

\* interp.go:601-603.
FlagStdio == [CommandLine |-> Redirect("flag.NewFlagSet", "stderr")]

\* interp.go:607-625: the methods of l, a log.Logger writing to stderr.
LogStdio ==
    Redirects({<<"Fatal", "l.Panic", "stderr">>, <<"Fatalf", "l.Panicf", "stderr">>,
               <<"Fatalln", "l.Panicln", "stderr">>, <<"Flags", "l.Flags", "stderr">>,
               <<"Output", "l.Output", "stderr">>, <<"Panic", "l.Panic", "stderr">>,
               <<"Panicf", "l.Panicf", "stderr">>, <<"Panicln", "l.Panicln", "stderr">>,
               <<"Prefix", "l.Prefix", "stderr">>, <<"Print", "l.Print", "stderr">>,
               <<"Printf", "l.Printf", "stderr">>, <<"Println", "l.Println", "stderr">>,
               <<"SetFlags", "l.SetFlags", "stderr">>,
               <<"SetOutput", "l.SetOutput", "stderr">>,
               <<"SetPrefix", "l.SetPrefix", "stderr">>, <<"Writer", "l.Writer", "stderr">>})

\* interp.go:629-631.
OsStdio ==
    [Stdin |-> Redirect("&stdin", "stdin"), Stdout |-> Redirect("&stdout", "stdout"),
     Stderr |-> Redirect("&stderr", "stderr")]

\* A fixStdio that would redirect nothing.
fixStdioNothing(b) == b

\* fixStdio, interp.go:584-633.
fixStdio(b) ==
    IF "fmt" \notin DOMAIN b THEN b
    ELSE [k \in DOMAIN b |->
            CASE k = "fmt" -> Put(b[k], FmtStdio)
              [] k = "flag" -> Put(b[k], FlagStdio)
              [] k = "log" -> Put(b[k], LogStdio)
              [] k = "os" -> Put(b[k], OsStdio)
              [] OTHER -> b[k]]

\* Use, interp.go:556-577, called by the host with values.
Use(values) ==
    /\ nuse' = nuse + 1
    /\ useArg' = values
    /\ registered' = registered \cup (DOMAIN values \ {HooksPath})
    /\ hooked' = IF HooksPath \in DOMAIN values
                 THEN Append(hooked, values[HooksPath]) ELSE hooked
    /\ binPkg' = IF "fmt" \in DOMAIN values
                 THEN fixStdio(useRegister(binPkg, values))
                 ELSE useRegister(binPkg, values)
    /\ UNCHANGED <<id, frameId, done, closed, closedBy, cancelChan, fastChan, crashed, tick>>
    /\ UNCHANGED <<ctxErr, ninv, call, replVars, evalVars, lockVars>>

\* The host calls Use.
CallUse ==
    /\ nuse < MaxUses
    /\ \E values \in ExportsOf(nuse + 1) : Use(values)

UseNext == CallUse

UseSpec == Init /\ [][UseNext]_vars

\* ------------------------------------------------------------- properties of Use
\* The step of a Use call.
UseStep == nuse' = nuse + 1

\* The symbols of the four packages that bear the standard streams.
StdioNames ==
    [fmt |-> {"Print", "Printf", "Println", "Scan", "Scanf", "Scanln"},
     os |-> {"Stdin", "Stdout", "Stderr"},
     flag |-> {"CommandLine"},
     log |-> {"Fatal", "Fatalf", "Fatalln", "Flags", "Output", "Panic", "Panicf", "Panicln",
              "Prefix", "Print", "Printf", "Println", "SetFlags", "SetOutput", "SetPrefix",
              "Writer"}]
StdioSymbol(k, s) == k \in DOMAIN StdioNames /\ s \in StdioNames[k]

\* A value bound to one of the interpreter's streams, not a value of the host.
ToStream(v, stream) == DOMAIN v = {"fn", "stream"} /\ v.stream = stream

\* The entry of path k and name s in registry b, or "none".
Entry(b, k, s) == IF k \in DOMAIN b /\ s \in DOMAIN b[k] THEN <<b[k][s]>> ELSE <<>>

\* C11, as the claim has it: after Use(values) every symbol of values, but
\* those of the hooks path, is in binPkg with the value given.
C11_UseRegistersAll ==
    [][UseStep =>
          \A k \in DOMAIN useArg' \ {HooksPath} : \A s \in DOMAIN useArg'[k] :
              Entry(binPkg', k, s) = <<useArg'[k][s]>>]_vars

\* C11: after Use(values) every symbol of values, but those of the hooks path
\* and the stdio symbols rewritten when values has fmt, is in binPkg with the
\* value given; an entry that is not in values is as it was, but the stdio
\* symbols when values has fmt; the hooks path is given to the hooks parser
\* and is never in binPkg.
C11_UseMerges ==
    /\ [](HooksPath \notin DOMAIN binPkg)
    /\ [][UseStep =>
          LET values == useArg'
              Fixed(k, s) == "fmt" \in DOMAIN values /\ StdioSymbol(k, s)
          IN  /\ \A k \in DOMAIN values \ {HooksPath} : \A s \in DOMAIN values[k] :
                    ~Fixed(k, s) => Entry(binPkg', k, s) = <<values[k][s]>>
              /\ \A k \in DOMAIN binPkg \cup DOMAIN binPkg' :
                    \A s \in (IF k \in DOMAIN binPkg THEN DOMAIN binPkg[k] ELSE {}) \cup
                             (IF k \in DOMAIN binPkg' THEN DOMAIN binPkg'[k] ELSE {}) :
                        (~(k \in DOMAIN values /\ s \in DOMAIN values[k]) /\ ~Fixed(k, s))
                            => Entry(binPkg', k, s) = Entry(binPkg, k, s)
              /\ hooked' = IF HooksPath \in DOMAIN values
                           THEN Append(hooked, values[HooksPath]) ELSE hooked]_vars

\* A second Use, with the hooks path and without fmt, has registered os.Stdout
\* and left the fmt.Sprint of the first.
C11_Witness ==
    /\ nuse = 2
    /\ Entry(binPkg, "fmt", "Sprint") = <<HostValue("fmt", "Sprint", 1)>>
    /\ Entry(binPkg, "os", "Stdout") = <<HostValue("os", "Stdout", 2)>>
    /\ HooksPath \in DOMAIN useArg
    /\ Len(hooked) = 1

\* C12: once a Use has registered fmt, Print, Printf and Println of fmt are
\* bound to the interpreter's standard output and Scan, Scanf and Scanln to
\* its standard input; a Use whose values have no fmt changes no stdio symbol
\* that is not in its values.
C12_FmtRedirected ==
    /\ []("fmt" \in registered =>
            /\ "fmt" \in DOMAIN binPkg
            /\ \A s \in {"Print", "Printf", "Println"} :
                  s \in DOMAIN binPkg["fmt"] /\ ToStream(binPkg["fmt"][s], "stdout")
            /\ \A s \in {"Scan", "Scanf", "Scanln"} :
                  s \in DOMAIN binPkg["fmt"] /\ ToStream(binPkg["fmt"][s], "stdin"))
    /\ [][(UseStep /\ "fmt" \notin DOMAIN useArg') =>
             \A k \in DOMAIN StdioNames : \A s \in StdioNames[k] :
                 ~(k \in DOMAIN useArg' /\ s \in DOMAIN useArg'[k])
                     => Entry(binPkg', k, s) = Entry(binPkg, k, s)]_vars

\* fmt was registered with its Print by the first Use, and a second Use
\* without fmt has been made.
C12_Witness ==
    /\ nuse = 2
    /\ "fmt" \in registered
    /\ "fmt" \notin DOMAIN useArg
    /\ "os" \in DOMAIN useArg
    /\ ToStream(binPkg["fmt"]["Print"], "stdout")

\* C19: once a Use has registered fmt, the stdio symbols of os, log and flag,
\* when these packages are in the registry, are bound to the interpreter's
\* streams.
C19_StdioWhateverOrder ==
    "fmt" \in registered =>
        /\ "os" \in DOMAIN binPkg =>
              \A s \in StdioNames["os"] :
                  s \in DOMAIN binPkg["os"] /\ DOMAIN binPkg["os"][s] = {"fn", "stream"}
        /\ "log" \in DOMAIN binPkg =>
              \A s \in StdioNames["log"] :
                  s \in DOMAIN binPkg["log"] /\ ToStream(binPkg["log"][s], "stderr")
        /\ "flag" \in DOMAIN binPkg =>
              \A s \in StdioNames["flag"] :
                  s \in DOMAIN binPkg["flag"] /\ ToStream(binPkg["flag"][s], "stderr")

\* ------------------------------------------------------------- Eval, EvalPath, eval
\* Number of evaluations the host begins (EvalSpec).
MaxEvals == 2

\* DefaultSourceName, interp.go:159.
DefaultSourceName == "_.go"
\* Paths given to EvalPath.
Paths == {"a.go", "b.go"}
\* The package of the sources.
MainPkg == "main"
\* Types the analysis of a source may add to universe.types.
TypeNames == {"int", "string"}

\* The stages of eval that may return an error, and those a panic is raised in.
ErrorStages == {"ast", "gta", "cfg", "genRun", "genGlobalVars"}
PanicStages == {"ast", "gta", "cfg", "genRun", "runRoot"}
\* The values of a panic: panic(nil), or any other value.
NilValue == "nil"
PanicValues == {NilValue, "v"}

\* What a source makes eval do: the stage that fails, if any, and how (an
\* error returned, a panic, or for interp.ast no root node and no error).
Sources ==
    {[NoEval EXCEPT !.fail = f, !.how = h] :
        f \in ErrorStages \cup PanicStages \cup {"none"},
        h \in {"error", "panic", "empty", "none"}}
EvalSources ==
    {e \in Sources :
        /\ e.how = "none" <=> e.fail = "none"
        /\ e.how = "error" => e.fail \in ErrorStages
        /\ e.how = "panic" => e.fail \in PanicStages
        /\ e.how = "empty" => e.fail = "ast"}

\* What the analysis of a source that compiles gives, each chosen when the
\* stage that gives it is performed: the types it adds to universe.types,
\* whether the source declares the function main of package main, and the
\* init nodes cfg returns.
NewTypes == {<<>>} \cup {<<x>> : x \in TypeNames}
DeclaresMain == BOOLEAN
InitNodes == {<<>>, <<"init">>}

\* The zero value of a type, and a value the program has assigned.
Zero(t) == [type |-> t, val |-> "zero"]
Assigned(t) == [type |-> t, val |-> "set"]

\* The evaluation in progress fails at stage st in the way how.
Fails(st, how) == ecall.fail = st /\ ecall.how = how

failedNever(err) == FALSE

\* err != nil.
failed(err) == err # "nil"

\* What recover() gives for a panic with value v.  For panic(nil) it is nil
\* with a Go before 1.21, a *runtime.PanicNilError since.
recover(v) == IF v = NilValue THEN {NilValue, "*runtime.PanicNilError"} ELSE {v}

\* return res, err from eval (with Eval, EvalPath and EvalWithContext
\* returning what eval returns).
EvalReturns(r) ==
    /\ eres' = r
    /\ epc' = "returned"

\* interp.go:398-405: stage st panics; the deferred function recovers and, if
\* what it recovered is not nil, puts a Panic in err.  res and err are as they
\* were: the zero value and nil.
EvalPanics(st) ==
    /\ stages' = Append(stages, st)
    /\ \E v \in PanicValues :
          /\ panicked' = v
          /\ \E r \in recover(v) :
                EvalReturns(IF r # NilValue THEN Result(FALSE, "Panic", r) ELSE ZeroResult)

\* interp.go:391-396: the source name eval works under.
evalNameReset(cur, given) == IF given # "" THEN given ELSE DefaultSourceName
evalName(cur, given) ==
    IF given # "" THEN given
    ELSE IF cur = "" THEN DefaultSourceName
    ELSE cur

\* interp.go:350-362.
resizeFrameFresh(data, ts) ==
    IF Len(ts) - Len(data) <= 0 THEN data ELSE [j \in 1..Len(ts) |-> Zero(ts[j])]
resizeFrame(data, ts) ==
    LET l == Len(ts)
        b == Len(data)
    IN  IF l - b <= 0 THEN data
        ELSE [j \in 1..l |-> IF j <= b THEN data[j] ELSE Zero(ts[j])]

\* What the calls of the host and the stages of eval leave alone.
EvalKeeps ==
    /\ UNCHANGED <<id, closed, closedBy, fastChan, binPkg, crashed, tick>>
    /\ UNCHANGED <<ctxErr, ninv, call, replVars, useVars, lpc>>
    /\ UNCHANGED <<opt, neval, ecall>>
EvalLeaves == EvalKeeps /\ UNCHANGED mutex

\* A call of eval begins, interp.go:390.
evalBegin(e) ==
    /\ neval < MaxEvals
    /\ epc \in {"idle", "returned"}
    /\ neval' = neval + 1
    /\ ecall' = e
    /\ epc' = "ast"
    /\ stages' = <<>>
    /\ initNodes' = <<>>
    /\ panicked' = "none"
    /\ eres' = ZeroResult
    /\ UNCHANGED <<id, closed, closedBy, fastChan, binPkg, crashed, tick>>
    /\ UNCHANGED <<ctxErr, ninv, call, replVars, useVars, lockVars>>
    /\ UNCHANGED <<opt, name, universe, types, frameData, frameMutex, frameId, mainSym>>

\* Eval, interp.go:375-377.
Eval(e) ==
    /\ evalBegin([e EXCEPT !.entry = "Eval", !.name = "", !.inc = TRUE])
    /\ UNCHANGED <<done, cancelChan>>

\* EvalPath, interp.go:381-388, of a file that is readable or not.
EvalPath(path, readable, e) ==
    IF readable
    THEN /\ evalBegin([e EXCEPT !.entry = "EvalPath", !.name = path, !.inc = FALSE])
         /\ UNCHANGED <<done, cancelChan>>
    ELSE /\ neval < MaxEvals
         /\ epc \in {"idle", "returned"}
         /\ neval' = neval + 1
         /\ ecall' = [NoEval EXCEPT !.entry = "EvalPath", !.name = path]
         /\ stages' = <<>>
         /\ initNodes' = <<>>
         /\ panicked' = "none"
         /\ EvalReturns(Result(FALSE, "readError", "none"))
         /\ UNCHANGED <<id, closed, closedBy, fastChan, binPkg, crashed, tick>>
         /\ UNCHANGED <<ctxErr, ninv, call, replVars, useVars, lockVars>>
         /\ UNCHANGED <<opt, name, universe, types, frameData, frameMutex, frameId, mainSym>>
         /\ UNCHANGED <<done, cancelChan>>

EvalWithContextCancellable(e) ==
    /\ evalBegin([e EXCEPT !.entry = "EvalWithContext", !.name = "", !.inc = TRUE])
    /\ done' = neval + 1
    /\ cancelChan' = TRUE

\* EvalWithContext, interp.go:516-525, under a context that is never
\* cancelled: done is made, cancelChan set, and Eval called.
EvalWithContext(e) ==
    /\ evalBegin([e EXCEPT !.entry = "EvalWithContext", !.name = "", !.inc = TRUE])
    /\ done' = neval + 1
    /\ cancelChan' = ~fastChan

\* interp.go:391-411: the source name is set and the source parsed.
StageAst ==
    /\ epc = "ast"
    /\ name' = evalName(name, ecall.name)
    /\ IF Fails("ast", "panic") THEN EvalPanics("ast")
       ELSE /\ stages' = Append(stages, "ast")
            /\ UNCHANGED panicked
            /\ IF Fails("ast", "error") THEN EvalReturns(Result(FALSE, "error", "none"))
               ELSE IF Fails("ast", "empty") THEN EvalReturns(ZeroResult)
               ELSE /\ epc' = IF opt.astDot THEN "astDot" ELSE "gta"
                    /\ UNCHANGED eres
    /\ UNCHANGED <<universe, types, frameData, frameMutex, frameId, done, cancelChan>>
    /\ UNCHANGED <<mainSym, initNodes>>
    /\ EvalLeaves

\* interp.go:413-422: the AST is dumped; with noRun, eval returns here.
StageAstDot ==
    /\ epc = "astDot"
    /\ stages' = Append(stages, "astDot")
    /\ IF opt.noRun THEN EvalReturns(ZeroResult)
       ELSE /\ epc' = "gta"
            /\ UNCHANGED eres
    /\ UNCHANGED <<name, universe, types, frameData, frameMutex, frameId, done, cancelChan,
                   panicked>>
    /\ UNCHANGED <<mainSym, initNodes>>
    /\ EvalLeaves

\* interp.go:425-427: global types analysis; when it succeeds the functions
\* the source declares are symbols of the scope of their package.
StageGta ==
    /\ epc = "gta"
    /\ IF Fails("gta", "panic") THEN EvalPanics("gta")
       ELSE /\ stages' = Append(stages, "gta")
            /\ UNCHANGED panicked
            /\ IF failed(IF Fails("gta", "error") THEN "error" ELSE "nil")
               THEN EvalReturns(Result(FALSE, "error", "none"))
               ELSE /\ epc' = "cfg"
                    /\ UNCHANGED eres
    /\ \E m \in DeclaresMain : mainSym' = (mainSym \/ (epc' = "cfg" /\ m))
    /\ UNCHANGED <<name, universe, types, frameData, frameMutex, frameId, done, cancelChan>>
    /\ UNCHANGED initNodes
    /\ EvalLeaves

\* interp.go:430-440: the AST is annotated with the control flow graph, which
\* gives the global variables their slots (universe.types grows); on an error
\* the graph is dumped if cfgDot is set.
StageCfg ==
    /\ epc = "cfg"
    /\ IF Fails("cfg", "panic")
       THEN EvalPanics("cfg") /\ UNCHANGED <<types, initNodes>>
       ELSE /\ UNCHANGED panicked
            /\ IF failed(IF Fails("cfg", "error") THEN "error" ELSE "nil")
               THEN /\ stages' = stages \o (IF opt.cfgDot THEN <<"cfg", "cfgDot">>
                                            ELSE <<"cfg">>)
                    /\ EvalReturns(Result(FALSE, "error", "none"))
                    /\ UNCHANGED <<types, initNodes>>
               ELSE /\ stages' = Append(stages, "cfg")
                    /\ \E t \in NewTypes : types' = types \o t
                    /\ \E n \in InitNodes : initNodes' = n
                    /\ epc' = "main"
                    /\ UNCHANGED eres
    /\ UNCHANGED <<name, universe, frameData, frameMutex, frameId, done, cancelChan>>
    /\ UNCHANGED mainSym
    /\ EvalLeaves

\* The task eval runs in: the goroutine of EvalWithContext, or the host.
EvalTask == IF ecall.entry = "EvalWithContext" THEN "eval" ELSE "host"

\* interp.go:443-445.
withMainFirst(nodes, m) == IF m THEN <<"main">> \o nodes ELSE nodes
withMain(nodes, m) == IF m THEN Append(nodes, "main") ELSE nodes

\* sync.RWMutex: Lock by task t, and Unlock.
RWLock(m, t) == [m EXCEPT !.w = t]
RWUnlockNothing(m) == m
RWUnlock(m) == [m EXCEPT !.w = "none"]

\* interp.go:443-450 and 364-371: main, if it is a symbol of the scope of
\* package main, is added after the init nodes; main() reads the scopes with
\* the mutex locked for reading and unlocks it as it returns.
StageMain ==
    /\ epc = "main"
    /\ mutex.w = "none"
    /\ initNodes' = withMain(initNodes, mainSym)
    /\ epc' = "mutexLock"
    /\ UNCHANGED <<name, universe, types, frameData, frameMutex, frameId, done, cancelChan,
                   stages, panicked, eres, mainSym>>
    /\ EvalLeaves

\* interp.go:451.
StageLock ==
    /\ epc = "mutexLock"
    /\ mutex.w = "none" /\ mutex.r = {}
    /\ mutex' = RWLock(mutex, EvalTask)
    /\ epc' = "register"
    /\ UNCHANGED <<name, universe, types, frameData, frameMutex, frameId, done, cancelChan,
                   stages, panicked, eres, mainSym, initNodes>>
    /\ EvalKeeps

\* interp.go:452-458: the package is made visible in the universe.
StageRegister ==
    /\ epc = "register"
    /\ universe' = universe \cup {MainPkg}
    /\ stages' = Append(stages, "register")
    /\ epc' = "mutexUnlock"
    /\ UNCHANGED <<name, types, frameData, frameMutex, frameId, done, cancelChan, panicked,
                   eres, mainSym, initNodes>>
    /\ EvalLeaves

\* interp.go:459-471: the mutex is unlocked; the graph is dumped if cfgDot is
\* set; with noRun, eval returns.
StageUnlock ==
    /\ epc = "mutexUnlock"
    /\ mutex' = RWUnlock(mutex)
    /\ stages' = stages \o (IF opt.cfgDot THEN <<"cfgDot">> ELSE <<>>)
    /\ IF opt.noRun THEN EvalReturns(ZeroResult)
       ELSE /\ epc' = "genRun"
            /\ UNCHANGED eres
    /\ UNCHANGED <<name, universe, types, frameData, frameMutex, frameId, done, cancelChan,
                   panicked, mainSym, initNodes>>
    /\ EvalKeeps

\* interp.go:474-476: the closures of the nodes are generated.
StageGenRun ==
    /\ epc = "genRun"
    /\ IF Fails("genRun", "panic") THEN EvalPanics("genRun")
       ELSE /\ stages' = Append(stages, "genRun")
            /\ UNCHANGED panicked
            /\ IF failed(IF Fails("genRun", "error") THEN "error" ELSE "nil")
               THEN EvalReturns(Result(FALSE, "error", "none"))
               ELSE /\ epc' = "setrunid"
                    /\ UNCHANGED eres
    /\ UNCHANGED <<name, universe, types, frameData, frameMutex, frameId, done, cancelChan>>
    /\ UNCHANGED <<mainSym, initNodes>>
    /\ EvalLeaves

\* interp.go:479-480: the frame takes the run id and its mutex is locked.
StageLockFrame ==
    /\ epc = "setrunid"
    /\ frameMutex = "free"
    /\ frameId' = runid
    /\ frameMutex' = "eval"
    /\ epc' = "resize"
    /\ UNCHANGED <<name, universe, types, frameData, done, cancelChan, stages, panicked, eres>>
    /\ UNCHANGED <<mainSym, initNodes>>
    /\ EvalLeaves

\* interp.go:481.
StageResizeFrame ==
    /\ epc = "resize"
    /\ frameData' = resizeFrame(frameData, types)
    /\ epc' = "unlock"
    /\ stages' = Append(stages, "resizeFrame")
    /\ UNCHANGED <<name, universe, types, frameMutex, frameId, done, cancelChan, panicked, eres>>
    /\ UNCHANGED <<mainSym, initNodes>>
    /\ EvalLeaves

\* interp.go:482.
StageUnlockFrame ==
    /\ epc = "unlock"
    /\ frameMutex' = "free"
    /\ epc' = "runRoot"
    /\ UNCHANGED <<name, universe, types, frameData, frameId, done, cancelChan, stages,
                   panicked, eres>>
    /\ UNCHANGED <<mainSym, initNodes>>
    /\ EvalLeaves

\* interp.go:485: the closures of the root node run; the program assigns its
\* global variables.
StageRunRoot ==
    /\ epc = "runRoot"
    /\ IF Fails("runRoot", "panic")
       THEN EvalPanics("runRoot") /\ UNCHANGED frameData
       ELSE /\ stages' = Append(stages, "runRoot")
            /\ frameData' = [j \in 1..Len(frameData) |-> Assigned(frameData[j].type)]
            /\ epc' = "genGlobalVars"
            /\ UNCHANGED <<panicked, eres>>
    /\ UNCHANGED <<name, universe, types, frameMutex, frameId, done, cancelChan>>
    /\ UNCHANGED <<mainSym, initNodes>>
    /\ EvalLeaves

\* interp.go:488-492: the global variables are wired and run.
StageGlobalVars ==
    /\ epc = "genGlobalVars"
    /\ IF failed(IF Fails("genGlobalVars", "error") THEN "error" ELSE "nil")
       THEN /\ stages' = Append(stages, "genGlobalVars")
            /\ EvalReturns(Result(FALSE, "error", "none"))
       ELSE /\ stages' = stages \o <<"genGlobalVars", "runGlobalVars">>
            /\ epc' = "runInits"
            /\ UNCHANGED eres
    /\ UNCHANGED <<name, universe, types, frameData, frameMutex, frameId, done, cancelChan,
                   panicked>>
    /\ UNCHANGED <<mainSym, initNodes>>
    /\ EvalLeaves

\* What the run of a node of initNodes is recorded as.
RunOf(node) == IF node = "main" THEN "runMain" ELSE "runInit"

\* interp.go:494-507: the nodes of initNodes run in order, and the value of
\* the root node is returned.
StageInitsAndValue ==
    /\ epc = "runInits"
    /\ stages' = stages \o <<"runInits">> \o [j \in 1..Len(initNodes) |-> RunOf(initNodes[j])]
    /\ \E valid \in BOOLEAN : EvalReturns(Result(valid, "nil", IF valid THEN "v" ELSE "none"))
    /\ UNCHANGED <<name, universe, types, frameData, frameMutex, frameId, done, cancelChan,
                   panicked>>
    /\ UNCHANGED <<mainSym, initNodes>>
    /\ EvalLeaves

\* The host calls Eval, EvalPath or EvalWithContext, one call after the other.
CallEval == \E e \in EvalSources : Eval(e)
CallEvalPath == \E path \in Paths, readable \in BOOLEAN, e \in EvalSources : EvalPath(path, readable, e)
CallEvalWithContext == \E e \in EvalSources : EvalWithContext(e)

\* An interpreter made by New with any options.
Options == [noRun : BOOLEAN, astDot : BOOLEAN, cfgDot : BOOLEAN]
EvalInit ==
    /\ NewInterp
    /\ NoInvocations
    /\ ctxErr = [c \in Ctx |-> "nil"]
    /\ NoRepl
    /\ NoUse
    /\ NoLock
    /\ opt \in Options
    /\ NoEvalCall

EvalNext ==
    \/ CallEval
    \/ CallEvalPath
    \/ CallEvalWithContext
    \/ StageAst
    \/ StageAstDot
    \/ StageGta
    \/ StageCfg
    \/ StageMain
    \/ StageLock
    \/ StageRegister
    \/ StageUnlock
    \/ StageGenRun
    \/ StageLockFrame
    \/ StageResizeFrame
    \/ StageUnlockFrame
    \/ StageRunRoot
    \/ StageGlobalVars
    \/ StageInitsAndValue

EvalSpec == EvalInit /\ [][EvalNext]_vars

\* ------------------------------------------------------------- properties of eval
\* The call of Eval, EvalPath or EvalWithContext has returned.
EvalReturned == epc = "returned"

\* C14: a panic at any stage of eval does not propagate: eval returns a Panic
\* error whose Value is the panicked value; when no stage panics, eval returns
\* no Panic error.
C14_PanicBecomesError ==
    EvalReturned =>
        /\ panicked # "none" => eres.err = "Panic" /\ eres.value = panicked
        /\ panicked = "none" => eres.err # "Panic"

\* Stage st has been performed by the evaluation in progress or just returned.
Performed(st) == \E i \in 1..Len(stages) : stages[i] = st

\* The stages that generate or run closures, or resize the frame.
ExecStages == {"genRun", "resizeFrame", "runRoot", "genGlobalVars", "runGlobalVars",
               "runInits", "runMain"}

\* The source of the evaluation was read and has no fault in its parsing,
\* global types analysis or control flow graph.
Compiles ==
    /\ ecall.entry # "none"
    /\ eres.err # "readError"
    /\ ecall.fail \notin {"ast", "gta", "cfg"}

\* C15: with noRun, whatever the other options, eval of a source that compiles
\* performs parsing, global types analysis and the control flow graph, and
\* nothing that executes: no closure is generated or run, the global frame is
\* not resized and the value returned is invalid.
C15_NoRunCompilesOnly ==
    opt.noRun /\ EvalReturned /\ Compiles =>
        /\ Performed("ast") /\ Performed("gta") /\ Performed("cfg")
        /\ \A st \in ExecStages : ~Performed(st)
        /\ frameData = <<>>
        /\ ~eres.valid

\* An evaluation is in progress.
Evaluating == epc \notin {"idle", "returned"}

\* EvalWithContext has been called on the interpreter: it has made done.
ContextUsed == done # NilChan

\* C16 as stated: during any evaluation, whatever its entry point and whatever
\* preceded it, cancelChan is true if and only if fastChan is not set.
C16_CancelChanIffNotFastChan == Evaluating => (cancelChan <=> ~fastChan)

\* C16: cancelChan is never true while fastChan is set; during an evaluation
\* begun by EvalWithContext, or that follows a call of EvalWithContext,
\* cancelChan is true if and only if fastChan is not set; during an evaluation
\* by Eval or EvalPath that no EvalWithContext preceded, cancelChan is false.
C16_CancelChanAfterContext ==
    /\ cancelChan => ~fastChan
    /\ Evaluating /\ ContextUsed => (cancelChan <=> ~fastChan)
    /\ Evaluating /\ ~ContextUsed => ~cancelChan /\ ecall.entry \in {"Eval", "EvalPath"}

\* An Eval that follows an EvalWithContext runs with cancellable channels.
C16_Witness ==
    /\ Evaluating
    /\ ecall.entry = "Eval"
    /\ ContextUsed
    /\ cancelChan
    /\ Performed("runRoot")

\* The step is a call of EvalPath on a path that cannot be read.
EvalPathUnreadableStep ==
    /\ neval' = neval + 1
    /\ ecall'.entry = "EvalPath"
    /\ eres'.err = "readError"

\* The step is the one in which eval settles its source name and parses.
ParseStep == epc = "ast" /\ epc' # "ast"

\* C17: EvalPath of an unreadable path returns the read error and an invalid
\* value, performs no stage and leaves the interpreter as it was; EvalPath of
\* a readable path evaluates under the path as source name, and the name
\* stays for the later evaluations that give none.
C17_EvalPathName ==
    [][/\ EvalPathUnreadableStep =>
            /\ epc' = "returned"
            /\ ~eres'.valid
            /\ stages' = <<>>
            /\ UNCHANGED <<name, universe, types, frameData, frameMutex, frameId, binPkg, id,
                           done, cancelChan>>
       /\ ParseStep =>
            name' = IF ecall.entry = "EvalPath" THEN ecall.name
                    ELSE IF name = "" THEN DefaultSourceName
                    ELSE name
       /\ ~ParseStep => name' = name]_vars

\* An Eval that follows the EvalPath of a readable file has parsed under the
\* path of that file.
C17_Witness ==
    /\ neval = 2
    /\ ecall.entry = "Eval"
    /\ Performed("ast")
    /\ name \in Paths

\* The stages of eval in the order of interp.go:407-496.
StageOrder == <<"ast", "gta", "cfg", "register", "genRun", "runRoot", "genGlobalVars",
                "runGlobalVars", "runInits", "runMain">>
IsStage(st) == \E i \in 1..Len(StageOrder) : StageOrder[i] = st

\* The stages performed, without the dumps and the resize of the frame.
StagesDone == SelectSeq(stages, IsStage)

ResizeStep == epc = "resize" /\ epc' = "unlock"

\* C20: the global frame never shrinks; resizeFrame keeps the slots the frame
\* had, gives each new slot the zero value of its type in universe.types, does
\* nothing when universe.types is not longer than the frame, leaves a frame
\* at least as long as universe.types, and runs with the mutex of the frame
\* locked for writing.
C20_FrameGrows ==
    [][/\ Len(frameData') >= Len(frameData)
       /\ Len(frameData') # Len(frameData) => ResizeStep
       /\ ResizeStep =>
            /\ \A j \in 1..Len(frameData) : frameData'[j] = frameData[j]
            /\ \A j \in (Len(frameData) + 1)..Len(frameData') : frameData'[j] = Zero(types[j])
            /\ Len(types) <= Len(frameData) => frameData' = frameData
            /\ Len(frameData') >= Len(types)
            /\ frameMutex = "eval" /\ frameMutex' = "eval"]_vars

\* A second evaluation has resized the frame: the slot of the first keeps the
\* value the program gave it, the new slot is zero.
C20_Witness ==
    /\ epc = "unlock"
    /\ Len(frameData) = 2
    /\ frameData[1] = Assigned(types[1])
    /\ frameData[2] = Zero(types[2])
    /\ types[1] # types[2]

\* ------------------------------------------------------------- the mutex of the interpreter
\* sync.RWMutex: Lock waits for the writer and the readers to leave, RLock
\* for the writer.
CanLock(m) == m.w = "none" /\ m.r = {}
CanRLock(m) == m.w = "none"

\* Task t goes to statement pc.
Goto(t, pc) == lpc' = [lpc EXCEPT ![t] = pc]

\* What Exports a Use of this part is given: one package with all its symbols.
LockExports(n) ==
    {[k \in {p} |-> [s \in ExportNames[p] |-> HostValue(p, s, n)]] : p \in {"fmt", "os"}}

\* interp.go:660-664: the packages of binPkg that REPL imports by itself, all
\* but those whose name is empty or ambiguous.  The paths of the model have one
\* element, which is the name of the package.
AmbiguousNames == {"", "rand", "scanner", "template", "pprof"}
PreImported(b) == {k \in DOMAIN b : k \notin AmbiguousNames}

\* What the steps of this part leave alone.
LockLeaves ==
    /\ UNCHANGED <<frameId, fastChan, crashed, tick>>
    /\ UNCHANGED <<ctxErr, ninv, call, replVars>>
    /\ UNCHANGED <<opt, name, types, frameData, frameMutex, neval, ecall, epc, stages,
                   panicked, eres, mainSym, initNodes>>

\* The host calls Use, interp.go:556.
UseCall ==
    /\ lpc["host"] = "idle"
    /\ nuse < MaxUses
    /\ \E values \in LockExports(nuse + 1) : useArg' = values
    /\ Goto("host", "useMerge")
    /\ UNCHANGED <<nuse, registered, hooked, binPkg, universe, mutex>>
    /\ UNCHANGED <<id, done, closed, closedBy, cancelChan>>
    /\ LockLeaves

\* interp.go:557-570: Use writes the symbols of its argument in binPkg; the
\* mutex is not taken.
UseMerge ==
    /\ lpc["host"] = "useMerge"
    /\ nuse' = nuse + 1
    /\ registered' = registered \cup (DOMAIN useArg \ {HooksPath})
    /\ binPkg' = useRegister(binPkg, useArg)
    /\ Goto("host", IF "fmt" \in DOMAIN useArg THEN "fixStdio" ELSE "idle")
    /\ UNCHANGED <<useArg, hooked, universe, mutex>>
    /\ UNCHANGED <<id, done, closed, closedBy, cancelChan>>
    /\ LockLeaves

\* interp.go:574-576 and 584-633: fixStdio rewrites symbols of binPkg; the
\* mutex is not taken.
UseFixStdio ==
    /\ lpc["host"] = "fixStdio"
    /\ binPkg' = fixStdio(binPkg)
    /\ Goto("host", "idle")
    /\ UNCHANGED <<nuse, useArg, registered, hooked, universe, mutex>>
    /\ UNCHANGED <<id, done, closed, closedBy, cancelChan>>
    /\ LockLeaves

\* The host calls REPL, interp.go:655.
REPLCallPreImport ==
    /\ lpc["host"] = "idle"
    /\ Goto("host", "preImport")
    /\ UNCHANGED <<nuse, useArg, registered, hooked, binPkg, universe, mutex>>
    /\ UNCHANGED <<id, done, closed, closedBy, cancelChan>>
    /\ LockLeaves

\* interp.go:658-667: REPL ranges over binPkg and writes a symbol of the
\* universe for each package it imports; the mutex is not taken.  The input
\* is at its end and REPL returns.
REPLPreImport ==
    /\ lpc["host"] = "preImport"
    /\ universe' = universe \cup PreImported(binPkg)
    /\ Goto("host", "idle")
    /\ UNCHANGED <<nuse, useArg, registered, hooked, binPkg, mutex>>
    /\ UNCHANGED <<id, done, closed, closedBy, cancelChan>>
    /\ LockLeaves

\* interp.go:516-530: the host calls EvalWithContext under a context that is
\* cancelled; done and cancelChan are set with the mutex locked, the goroutine
\* of the evaluation is started, and the call stops and returns while the
\* goroutine is still in eval.
EvalWithContextCancelled ==
    /\ lpc["host"] = "idle"
    /\ lpc["eval"] = "none"
    /\ CanLock(mutex)
    /\ done' = 1
    /\ cancelChan' = ~fastChan
    /\ id' = stopAdd(id)
    /\ closed' = closed \cup {1}
    /\ closedBy' = [closedBy EXCEPT ![1] = 1]
    /\ Goto("eval", "mainRLock")
    /\ UNCHANGED <<nuse, useArg, registered, hooked, binPkg, universe, mutex>>
    /\ LockLeaves

\* A step of the goroutine from statement from to statement to, with the
\* mutex and the universe as given.
EvalStep(from, to, m, u) ==
    /\ lpc["eval"] = from
    /\ mutex' = m
    /\ universe' = u
    /\ Goto("eval", to)
    /\ UNCHANGED <<nuse, useArg, registered, hooked, binPkg>>
    /\ UNCHANGED <<id, done, closed, closedBy, cancelChan>>
    /\ LockLeaves

\* main, interp.go:364-371, called by eval at interp.go:443: the scopes are
\* read with the mutex locked for reading.
MainRLock ==
    /\ CanRLock(mutex)
    /\ EvalStep("mainRLock", "mainRead", [mutex EXCEPT !.r = @ \cup {"eval"}], universe)
MainRead == EvalStep("mainRead", "mainRUnlock", mutex, universe)
MainRUnlock == EvalStep("mainRUnlock", "lock", [mutex EXCEPT !.r = @ \ {"eval"}], universe)

\* eval, interp.go:451-459: the package is registered with the mutex locked.
EvalLock ==
    /\ CanLock(mutex)
    /\ EvalStep("lock", "register", [mutex EXCEPT !.w = "eval"], universe)
EvalRegister == EvalStep("register", "unlock", mutex, universe \cup {MainPkg})
EvalUnlock == EvalStep("unlock", "getWrapper", [mutex EXCEPT !.w = "none"], universe)

\* getWrapper, interp.go:547-552, called while the closures are generated and
\* run: binPkg is read; the mutex is not taken.
GetWrapper == EvalStep("getWrapper", "ended", mutex, universe)

LockNext ==
    \/ UseCall
    \/ UseMerge
    \/ UseFixStdio
    \/ REPLCallPreImport
    \/ REPLPreImport
    \/ EvalWithContextCancelled
    \/ MainRLock
    \/ MainRead
    \/ MainRUnlock
    \/ EvalLock
    \/ EvalRegister
    \/ EvalUnlock
    \/ GetWrapper

LockSpec == Init /\ [][LockNext]_vars

\* The accesses to the shared maps that the statement a task is at performs.
Access(m, mode) == [map |-> m, mode |-> mode]
Accesses(t) ==
    IF t = "host"
    THEN CASE lpc[t] = "useMerge" -> {Access("binPkg", "w")}
           [] lpc[t] = "fixStdio" -> {Access("binPkg", "w")}
           [] lpc[t] = "preImport" ->
                {Access("binPkg", "r")} \cup
                (IF PreImported(binPkg) # {} THEN {Access("universe.sym", "w")} ELSE {})
           [] OTHER -> {}
    ELSE CASE lpc[t] = "mainRead" -> {Access("scopes", "r")}
           [] lpc[t] = "register" ->
                {Access("universe.sym", "r")} \cup
                (IF MainPkg \notin universe
                 THEN {Access("srcPkg", "w"), Access("universe.sym", "w"),
                       Access("pkgNames", "w")}
                 ELSE {})
           [] lpc[t] = "getWrapper" -> {Access("binPkg", "r")}
           [] OTHER -> {}

\* Task t holds the mutex in the mode the access needs.
Holds(t, mode) == mutex.w = t \/ (mode = "r" /\ t \in mutex.r)

\* Two tasks are at statements that access the same map, one of them writing.
Racy ==
    \E t1, t2 \in Tasks :
        /\ t1 # t2
        /\ \E a1 \in Accesses(t1), a2 \in Accesses(t2) :
              a1.map = a2.map /\ "w" \in {a1.mode, a2.mode}

\* C13: every write to the shared maps is made with the mutex locked for
\* writing and every read with it locked at least for reading, and no two
\* tasks are ever at accesses to the same map one of which is a write.
C13_AccessUnderLock ==
    /\ \A t \in Tasks : \A a \in Accesses(t) : Holds(t, a.mode)
    /\ ~Racy

\* ------------------------------------------------------------- main, and the locks of eval
\* The runs of the nodes of initNodes by the evaluation, in order.
IsRun(st) == st \in {"runInit", "runMain"}
Runs == SelectSeq(stages, IsRun)

\* main has run exactly once, after the run of every init node.
MainRanLast ==
    /\ Len(Runs) >= 1
    /\ Runs[Len(Runs)] = "runMain"
    /\ \A j \in 1..(Len(Runs) - 1) : Runs[j] = "runInit"

\* main has not run.
MainNotRun == \A j \in 1..Len(Runs) : Runs[j] # "runMain"

C22_LocksFreeAtReturn ==
    EvalReturned => mutex = FreeMutex /\ frameMutex = "free"

\* An evaluation has taken both locks and then returned through the recovery
\* of a panic.
C22_Witness ==
    /\ EvalReturned
    /\ panicked # "none"
    /\ Performed("register")
    /\ Performed("resizeFrame")

\* ------------------------------------------------------------- overlapping EvalWithContext
\* Two goroutines of the host call EvalWithContext on the same interpreter,
\* each with a context of its own: a call may begin while another is active.
OverlapCall ==
    /\ ninv < MaxCalls
    /\ \E p \in ApiProgs : EvalWithContextEnter(ninv + 1, ninv + 1, p)
    /\ UNCHANGED <<ctxErr, replVars>>

\* The context of a call that has not returned is cancelled, or its deadline
\* passes.
OverlapCancelCtx ==
    /\ UNCHANGED hostVars
    /\ ~crashed
    /\ \E c \in 1..MaxCalls, e \in CtxErrs :
          /\ c <= ninv
          /\ call[c].cpc # "returned"
          /\ ctxErr[c] = "nil"
          /\ ctxErr' = [ctxErr EXCEPT ![c] = e]
    /\ UNCHANGED <<interpVars, ninv, call, replVars>>

OverlapNext ==
    \/ OverlapCall
    \/ OverlapCancelCtx
    \/ SelectCtx
    \/ SelectDone
    \/ Compile
    \/ SetRunid
    \/ Run

OverlapSpec == Init /\ [][OverlapNext]_vars

\* C23: with overlapping invocations, no stop() closes a channel that is nil
\* or already closed, and the done channel made by an invocation that has
\* stopped on its cancelled context is closed.
C23_OverlapStopsCloseOwn ==
    /\ ~crashed
    /\ \A i \in Inv : (Returned(i) /\ call[i].branch = "ctx") => i \in closed

\* ------------------------------------------------------------- the goroutines of REPL
\* The handler is at its send of the empty line and the loop, which alone
\* receives from lines, has returned.
HandlerStuck == rpc = "returned" /\ hpc = "send"

\* C24: once REPL has returned, the input reader has closed end and exited,
\* and the signal handler eventually sees end closed and returns.
C24_HelpersTerminate ==
    (rpc = "returned") ~> (endClosed /\ rdpc = "done" /\ hpc = "done")

====
